---- MODULE Spec2Model ----
(***************************************************************************)
(* Model of the caching proxy of src/index.js.                             *)
(*                                                                         *)
(* The proxy keeps one in-memory Map (cache).  Every client request runs   *)
(* handleRequest synchronously when it arrives; on a miss fetchFromOrigin  *)
(* issues one outbound request per hop, and the hop is finished either by  *)
(* the 'end' callback of the origin's response or by the 'error' callback  *)
(* of the outbound request.  Body chunks of the client request are         *)
(* delivered to the 'data' listeners in later event-loop turns.  The       *)
(* origin is the environment: it answers each hop with any status,         *)
(* Location, header set and body of the small sets below.                  *)
(***************************************************************************)
EXTENDS Integers, Sequences, FiniteSets, TLC

\* ---------------------------------------------------------------- bounds
MaxReq == 2        \* client requests in one run
MaxHops == 3       \* cap on the outbound requests of one request (Spec)
MaxSeqHops == 7    \* cap on the outbound requests of one request (SpecSeq)
MaxChunks == 1     \* cap on the body chunks of one client request
MaxCliReq == 3     \* client requests in one run of SpecCli
MaxCliHops == 2    \* cap on the outbound requests of one request (SpecCli)

Requests == 1..MaxReq
CliRequests == 1..MaxCliReq
ReqIds == Requests \cup CliRequests
Methods == {"GET", "POST"}
ClientPaths == {"/a"}      \* paths clients ask for; "/b" is reached by redirect only
ChunkValues == {1, 2}
OriginHost == "http://o"
OtherHost == "http://other"
ErrorMessages == {"ECONNREFUSED"}
OriginStatuses == {200, 302, 404}
OriginBodies == {<<"x">>, <<"y">>}

\* Bodies a client may send: GET carries none, POST carries 0..MaxChunks chunks.
RECURSIVE SeqsUpTo(_)
SeqsUpTo(n) ==
  IF n = 0 THEN {<< >>}
  ELSE LET shorter == SeqsUpTo(n - 1)
       IN shorter \cup {Append(s, c) : s \in {t \in shorter : Len(t) = n - 1}, c \in ChunkValues}

BodiesOf(method) == IF method = "POST" THEN SeqsUpTo(MaxChunks) ELSE {<< >>}

\* ---------------------------------------------------------------- URLs
\* A URL reference is [host, path]; host "" is a relative reference and the
\* reference with both fields empty is the empty string (falsy in JS).
Ref(host, path) == [host |-> host, path |-> path]
NoLocation == Ref("", "")
Locations == {NoLocation, Ref("", "/a"), Ref("", "/b"), Ref(OtherHost, "/a")}

\* new URL(ref, base): an absolute reference ignores the base.
NewURL(ref, baseHost) ==
  IF ref.host = "" THEN Ref(baseHost, ref.path) ELSE ref

\* redirectUrl.replace(origin, ""): strips the configured origin prefix only.
ReplaceOrigin(url) ==
  IF url.host = OriginHost THEN Ref("", url.path) ELSE url

\* ---------------------------------------------------------------- headers
\* Header maps are functions from lower-cased header names to values
\* (IncomingMessage.headers is lower-cased, setHeader is case-insensitive).
NoHeaders == [n \in {} |-> ""]
PlainHeaders == [n \in {"content-type"} |-> "text/html"]
UpstreamHeaders ==
  [n \in {"content-type", "x-cache"} |-> IF n = "x-cache" THEN "upstream" ELSE "text/html"]
OriginHeaders == {PlainHeaders, UpstreamHeaders}

\* res.setHeader(name, value)
SetHeader(hdrs, name, value) ==
  [n \in DOMAIN hdrs \cup {name} |-> IF n = name THEN value ELSE hdrs[n]]

\* res.writeHead(status, obj): headers already set are merged with obj and
\* the headers passed to writeHead take precedence.
WriteHead(hdrs, obj) ==
  [n \in DOMAIN hdrs \cup DOMAIN obj |-> IF n \in DOMAIN obj THEN obj[n] ELSE hdrs[n]]

Response(status, hdrs, body) == [status |-> status, headers |-> hdrs, body |-> body]

\* ---------------------------------------------------------------- keys
\* crypto.createHash("sha256").update(bytes).digest("hex"): injective on the
\* byte strings of the model.
Sha256(bytes) == <<"sha256", bytes>>

\* The string generateCacheKey returns: the value of `key` at the return
\* statement.  The 'data' listener it registers for POST appends to its own
\* local variable afterwards, which the caller's copy does not see.
GenerateCacheKey(method, url) == <<method, url>>

\* The listener of generateCacheKey, run once per chunk on its local `key`.
OnData(localKey, chunk) == Append(localKey, Sha256(<<chunk>>))

\* The local `key` of the listener one call registers (POST only); for the
\* other methods no listener exists and the value is never touched.
LocalKey(method, url) == GenerateCacheKey(method, url)

\* ---------------------------------------------------------------- state
VARIABLES
  cache,      \* the Map: a function from the stored keys to [headers, body]
  reqs,       \* per client request: its content and its handler state
  storeLog,   \* history: every cache.set in order, with the origin status behind it
  proc,       \* the proxy process: where its top-level code stands, its options
  admin       \* a second invocation of the program, with a Map of its own

vars == <<cache, reqs, storeLog, proc, admin>>
procVars == <<proc, admin>>

\* program.opts(): --clear-cache given, --port given, --origin given.
Options == [clearCache : BOOLEAN, port : BOOLEAN, origin : BOOLEAN]
EmptyMap == [k \in {} |-> 0]

\* The outbound request of the current hop: its method and the body chunks
\* piped into it so far; NoOutbound when no hop is open.
Outbound(method) == [method |-> method, body |-> << >>]
NoOutbound == Outbound("")

IdleReq ==
  [ pc |-> "idle", method |-> "", url |-> "", body |-> << >>,
    received |-> 0, key |-> << >>, keyLocal |-> << >>, lookupAt |-> 0,
    fkey |-> << >>, fkeyLocal |-> << >>,
    target |-> NoLocation, out |-> NoOutbound, outstanding |-> 0,
    hops |-> 0, redirects |-> 0,
    resps |-> << >>, stores |-> 0, paths |-> {} ]

\* A process whose top-level code has not run yet.
NotStarted(opts) == [pc |-> "start", opts |-> opts, exit |-> -1, cleared |-> FALSE]

Init ==
  /\ cache = EmptyMap
  /\ reqs = [r \in ReqIds |-> IdleReq]
  /\ storeLog = << >>
  /\ \E opts \in Options : proc = NotStarted(opts)
  /\ admin = [run |-> NotStarted([clearCache |-> FALSE, port |-> FALSE, origin |-> FALSE]),
              cache |-> EmptyMap, after |-> 0]

\* Variant: a lookup never finds an entry.
CacheHas_NeverFinds(key) == FALSE

CacheHas(key) == key \in DOMAIN cache

\* Variant: an entry already present is kept (first write wins).
CacheSet_KeepsFirst(key, entry) ==
  [k \in DOMAIN cache \cup {key} |-> IF k \in DOMAIN cache THEN cache[k] ELSE entry]

\* Variant: the new entry replaces the whole Map.
CacheSet_DropsOthers(key, entry) == [k \in {key} |-> entry]

CacheSet(key, entry) ==
  [k \in DOMAIN cache \cup {key} |-> IF k = key THEN entry ELSE cache[k]]

IsRedirect(status, location) ==
  status >= 300 /\ status < 400 /\ location # NoLocation

\* Variant: the upper end of the cacheable range is lost.
IsCacheable_NoUpperEnd(status) == status >= 200

IsCacheable(status) == status >= 200 /\ status < 300

\* let redirectCount = 0 in the 'end' callback: a fresh counter per response.
RedirectCountInit == 0
RedirectLimit == 5

\* The synchronous part of fetchFromOrigin(origin, path, req, res): the target
\* URL, the key, a new outbound request with the client's method, and the
\* client's request stream piped into it.
FetchFromOrigin(q, path) ==
  [q EXCEPT !.pc = "fetching",
            !.target = NewURL(path, OriginHost),
            !.fkey = GenerateCacheKey(q.method, q.url),
            !.fkeyLocal = LocalKey(q.method, q.url),
            !.out = Outbound(q.method),
            !.outstanding = @ + 1,
            !.hops = @ + 1]

\* Variant: the outbound request of a hop is never counted as finished.
HopEnded_StaysOpen(q) == q

\* The outbound request of the current hop is over: its response has ended or
\* it has failed.
HopEnded(q) == [q EXCEPT !.outstanding = @ - 1, !.out = NoOutbound]

\* ---------------------------------------------------------------- actions
\* handleRequest: runs when the request's head has arrived, before any
\* 'data' event is dispatched.
HandleRequest(r, method, url, body) ==
  /\ reqs[r].pc = "idle"
  /\ LET key == GenerateCacheKey(method, url)
         base == [reqs[r] EXCEPT !.method = method, !.url = url, !.body = body,
                                 !.key = key, !.lookupAt = reqs[r].received,
                                 !.keyLocal = LocalKey(method, url)]
     IN IF CacheHas(key)
        THEN LET cached == cache[key]
                 hdrs == WriteHead(SetHeader(NoHeaders, "x-cache", "HIT"), cached.headers)
             IN reqs' = [reqs EXCEPT ![r] =
                  [base EXCEPT !.pc = "done", !.target = NoLocation, !.fkeyLocal = << >>,
                               !.resps = Append(@, Response(200, hdrs, cached.body)),
                               !.paths = @ \cup {"hit"}]]
        ELSE reqs' = [reqs EXCEPT ![r] = FetchFromOrigin(base, Ref("", url))]
  /\ UNCHANGED <<cache, storeLog, procVars>>

\* A body chunk of the client request is delivered to the 'data' listeners:
\* the one registered by handleRequest's call of generateCacheKey and the one
\* registered by the current hop's call of it.  The listeners of earlier hops
\* and of finished requests update variables nothing reads any more; the
\* hop's variables (target, fkeyLocal) are dropped when the request ends.
ReqData(r) ==
  /\ reqs[r].pc # "idle"
  /\ reqs[r].received < Len(reqs[r].body)
  /\ LET chunk == reqs[r].body[reqs[r].received + 1]
     IN reqs' = [reqs EXCEPT ![r].received = @ + 1,
                             ![r].keyLocal = OnData(@, chunk),
                             ![r].fkeyLocal =
                                IF reqs[r].pc = "fetching" THEN OnData(@, chunk) ELSE @,
                             ![r].out.body =
                                IF reqs[r].pc = "fetching" THEN Append(@, chunk) ELSE @]
  /\ UNCHANGED <<cache, storeLog, procVars>>

\* proxyRes 'end': the origin's response to the current hop is complete.
ProxyResEnd(r, status, location, headers, body, cap) ==
  /\ reqs[r].pc = "fetching"
  /\ LET q == HopEnded(reqs[r])
         redirectCount == RedirectCountInit
     IN IF IsRedirect(status, location)
        THEN LET redirectUrl == NewURL(location, q.target.host)
             IN IF redirectCount > RedirectLimit
                THEN /\ reqs' = [reqs EXCEPT ![r] =
                          [q EXCEPT !.pc = "done", !.target = NoLocation, !.fkeyLocal = << >>,
                                    !.redirects = @ + 1,
                                    !.resps = Append(@,
                                       Response(500,
                                         WriteHead(NoHeaders, [n \in {"content-type"} |-> "text/plain"]),
                                         <<"Too many redirects">>)),
                                    !.paths = @ \cup {"error"}]]
                     /\ UNCHANGED <<cache, storeLog, procVars>>
                ELSE \* fetchFromOrigin(origin, redirectUrl.replace(origin, ""), req, res)
                     /\ q.hops < cap
                     /\ reqs' = [reqs EXCEPT ![r] =
                          FetchFromOrigin([q EXCEPT !.redirects = @ + 1],
                                          ReplaceOrigin(redirectUrl))]
                     /\ UNCHANGED <<cache, storeLog, procVars>>
        ELSE IF IsCacheable(status)
             THEN /\ cache' = CacheSet(q.fkey, [headers |-> headers, body |-> body])
                  /\ storeLog' = Append(storeLog,
                        [req |-> r, key |-> q.fkey, status |-> status,
                         headers |-> headers, body |-> body,
                         received |-> q.received])
                  /\ reqs' = [reqs EXCEPT ![r] =
                       [q EXCEPT !.pc = "done", !.target = NoLocation, !.fkeyLocal = << >>,
                                 !.stores = @ + 1,
                                 !.resps = Append(@,
                                    Response(status,
                                      WriteHead(SetHeader(NoHeaders, "x-cache", "MISS"), headers),
                                      body)),
                                 !.paths = @ \cup {"store"}]]
                  /\ UNCHANGED procVars
             ELSE /\ reqs' = [reqs EXCEPT ![r] =
                       [q EXCEPT !.pc = "done", !.target = NoLocation, !.fkeyLocal = << >>,
                                 !.resps = Append(@,
                                    Response(status, WriteHead(NoHeaders, headers), body)),
                                 !.paths = @ \cup {"pass"}]]
                  /\ UNCHANGED <<cache, storeLog, procVars>>

\* Variant: the error handler also empties the cache.
ProxyReqError_ClearsCache(r, message) ==
  /\ reqs[r].pc = "fetching"
  /\ reqs' = [reqs EXCEPT ![r] =
       [HopEnded(@) EXCEPT !.pc = "done", !.target = NoLocation, !.fkeyLocal = << >>,
                 !.resps = Append(@,
                    Response(500,
                      WriteHead(NoHeaders, [n \in {"content-type"} |-> "text/plain"]),
                      <<"Error fetching from origin: ", message>>)),
                 !.paths = @ \cup {"error"}]]
  /\ cache' = [k \in {} |-> 0]
  /\ UNCHANGED <<storeLog, procVars>>

\* Variant: the error handler answers the client but the hop stays open, so
\* a late response of the origin is handled as well.
ProxyReqError_HopStaysOpen(r, message) ==
  /\ reqs[r].pc = "fetching"
  /\ Len(reqs[r].resps) = 0
  /\ reqs' = [reqs EXCEPT ![r] =
       [@ EXCEPT !.resps = Append(@,
                    Response(500,
                      WriteHead(NoHeaders, [n \in {"content-type"} |-> "text/plain"]),
                      <<"Error fetching from origin: ", message>>)),
                 !.paths = @ \cup {"error"}]]
  /\ UNCHANGED <<cache, storeLog, procVars>>

\* proxyReq 'error': the current hop failed at the transport level.
ProxyReqError(r, message) ==
  /\ reqs[r].pc = "fetching"
  /\ reqs' = [reqs EXCEPT ![r] =
       [HopEnded(@) EXCEPT !.pc = "done", !.target = NoLocation, !.fkeyLocal = << >>,
                 !.resps = Append(@,
                    Response(500,
                      WriteHead(NoHeaders, [n \in {"content-type"} |-> "text/plain"]),
                      <<"Error fetching from origin: ", message>>)),
                 !.paths = @ \cup {"error"}]]
  /\ UNCHANGED <<cache, storeLog, procVars>>

\* Variant: the required options are tested before --clear-cache.
TopLevel_ChecksOptionsFirst(opts) ==
  IF ~opts.port \/ ~opts.origin
  THEN [pc |-> "exited", opts |-> opts, exit |-> 1, cleared |-> FALSE]
  ELSE IF opts.clearCache
       THEN [pc |-> "exited", opts |-> opts, exit |-> 0, cleared |-> TRUE]
       ELSE [pc |-> "listening", opts |-> opts, exit |-> -1, cleared |-> FALSE]

\* The top-level code after program.parse: where a process started with
\* these options ends up (exit is -1 while the process runs).
TopLevel(opts) ==
  IF opts.clearCache
  THEN [pc |-> "exited", opts |-> opts, exit |-> 0, cleared |-> TRUE]
  ELSE IF ~opts.port \/ ~opts.origin
       THEN [pc |-> "exited", opts |-> opts, exit |-> 1, cleared |-> FALSE]
       ELSE [pc |-> "listening", opts |-> opts, exit |-> -1, cleared |-> FALSE]

\* clearCache(): cache.clear() on the Map of the process that runs it.
ClearCache(map) == EmptyMap

\* The proxy process runs its top-level code.
Startup ==
  /\ proc.pc = "start"
  /\ proc' = TopLevel(proc.opts)
  /\ cache' = IF proc'.cleared THEN ClearCache(cache) ELSE cache
  /\ UNCHANGED <<reqs, storeLog, admin>>

\* The program is started a second time, as a process of its own, while the
\* proxy listens: its top-level code runs on its own (new, empty) Map.
AdminRun(opts) ==
  /\ proc.pc = "listening"
  /\ admin.run.pc = "start"
  /\ LET run == TopLevel(opts)
     IN admin' = [run |-> run,
                  cache |-> IF run.cleared THEN ClearCache(admin.cache) ELSE admin.cache,
                  \* history: how many requests the proxy had received by then
                  after |-> Cardinality({r \in ReqIds : reqs[r].pc # "idle"})]
  /\ UNCHANGED <<cache, reqs, storeLog, proc>>

\* Requests reach the proxy once it listens, in the order of their numbers;
\* in Spec a request may arrive while earlier ones are in flight, in SpecSeq
\* and SpecCli only after they ended.
MayArrive(r) ==
  proc.pc = "listening" /\ (IF r = 1 THEN TRUE ELSE reqs[r - 1].pc # "idle")
MayArriveSeq(r) ==
  proc.pc = "listening" /\ (IF r = 1 THEN TRUE ELSE reqs[r - 1].pc = "done")

Next ==
  \/ \E r \in Requests, method \in Methods, url \in ClientPaths :
       \E body \in BodiesOf(method) :
         MayArrive(r) /\ HandleRequest(r, method, url, body)
  \/ \E r \in Requests : ReqData(r)
  \/ \E r \in Requests, status \in OriginStatuses, location \in Locations,
        headers \in OriginHeaders, body \in OriginBodies :
       ProxyResEnd(r, status, location, headers, body, MaxHops)
  \/ \E r \in Requests, message \in ErrorMessages : ProxyReqError(r, message)
  \/ Startup

Spec == Init /\ [][Next]_vars

NextSeq ==
  \/ \E r \in Requests, method \in Methods, url \in ClientPaths :
       \E body \in BodiesOf(method) :
         MayArriveSeq(r) /\ HandleRequest(r, method, url, body)
  \/ \E r \in Requests : ReqData(r)
  \/ \E r \in Requests, status \in OriginStatuses, location \in Locations,
        headers \in OriginHeaders, body \in OriginBodies :
       ProxyResEnd(r, status, location, headers, body, MaxSeqHops)
  \/ \E r \in Requests, message \in ErrorMessages : ProxyReqError(r, message)
  \/ Startup

SpecSeq == Init /\ [][NextSeq]_vars

\* SpecCli: the proxy serves GET requests one after the other while the
\* program may be started a second time with any options.
NextCli ==
  \/ \E r \in CliRequests, url \in ClientPaths :
       MayArriveSeq(r) /\ HandleRequest(r, "GET", url, << >>)
  \/ \E r \in CliRequests, status \in OriginStatuses, location \in Locations,
        headers \in OriginHeaders, body \in OriginBodies :
       ProxyResEnd(r, status, location, headers, body, MaxCliHops)
  \/ \E r \in CliRequests, message \in ErrorMessages : ProxyReqError(r, message)
  \/ Startup
  \/ \E opts \in Options : AdminRun(opts)

SpecCli == Init /\ [][NextCli]_vars

\* ---------------------------------------------------------------- claims
Arrived(r) == reqs[r].pc # "idle"
Done(r) == reqs[r].pc = "done"
XCacheOf(resp) ==
  IF "x-cache" \in DOMAIN resp.headers THEN resp.headers["x-cache"] ELSE "absent"
StoresOf(key) == {i \in DOMAIN storeLog : storeLog[i].key = key}
LastStored(key) ==
  storeLog[CHOOSE i \in StoresOf(key) : \A j \in StoresOf(key) : j <= i]

\* The key the specification prescribes: METHOD|PATH, and for a body-carrying
\* method METHOD|PATH|hex(sha256(body)) over the complete body.
RECURSIVE Concat(_)
Concat(chunks) == IF chunks = << >> THEN << >> ELSE <<Head(chunks)>> \o Concat(Tail(chunks))
PrescribedKey(method, url, body) ==
  IF method = "POST" THEN <<method, url, Sha256(Concat(body))>> ELSE <<method, url>>

\* C1: a request that arrives when no response was stored under its key
\* contacts the origin, and a stored 2xx response goes out with X-Cache: MISS;
\* a request that arrives after a response was stored under its key is a hit:
\* no origin request, X-Cache: HIT, and the body last stored under the key.
C1_HitMissCorrectness ==
  [][\A r \in Requests :
       /\ (reqs[r].pc = "idle" /\ reqs'[r].pc # "idle") =>
            IF StoresOf(reqs'[r].key) # {}
            THEN /\ reqs'[r].hops = 0
                 /\ reqs'[r].pc = "done"
                 /\ XCacheOf(reqs'[r].resps[1]) = "HIT"
                 /\ reqs'[r].resps[1].body = LastStored(reqs'[r].key).body
            ELSE reqs'[r].hops = 1
       /\ ("store" \in reqs'[r].paths) => XCacheOf(reqs'[r].resps[1]) = "MISS"
    ]_vars

\* C2: the key used for lookup and store is METHOD|PATH|hex(sha256(body)) for
\* POST, so two POSTs to one path with different complete bodies have distinct
\* keys and the second is not served from the first one's entry.
C2_KeyIncludesBodyDigest ==
  /\ \A r \in Requests : Arrived(r) =>
       reqs[r].key = PrescribedKey(reqs[r].method, reqs[r].url, reqs[r].body)
  /\ \A i \in DOMAIN storeLog :
       LET q == reqs[storeLog[i].req]
       IN storeLog[i].key = PrescribedKey(q.method, q.url, q.body)
  /\ \A r1, r2 \in Requests :
       (Arrived(r1) /\ Arrived(r2) /\ reqs[r1].method = "POST"
          /\ reqs[r2].method = "POST" /\ reqs[r1].url = reqs[r2].url
          /\ reqs[r1].body # reqs[r2].body)
       => /\ reqs[r1].key # reqs[r2].key
          /\ (r1 < r2 /\ reqs[r2].pc = "done" /\ reqs[r1].stores = 0) =>
                "hit" \notin reqs[r2].paths

\* C3: when the origin has answered six hops of one request with a redirect,
\* the request has ended with 500 "Too many redirects" after exactly 6 origin
\* requests.
C3_RedirectLimit ==
  \A r \in Requests : reqs[r].redirects >= 6 =>
     /\ reqs[r].pc = "done"
     /\ reqs[r].hops = 6
     /\ reqs[r].resps = <<Response(500, [n \in {"content-type"} |-> "text/plain"],
                                   <<"Too many redirects">>)>>

\* C4: no client request causes more than 6 outbound origin requests (its
\* redirect counter never passes 5).
C4_BoundedRedirects ==
  \A r \in Requests : reqs[r].hops <= 6 /\ reqs[r].redirects <= RedirectLimit

\* C5: only origin responses with a status in [200,300) are stored, every
\* cache entry is the pair of such a response, and a request whose key no
\* response was stored under (all earlier identical requests got non-2xx)
\* contacts the origin.
C5_NonCacheablePassThrough ==
  /\ \A i \in DOMAIN storeLog : storeLog[i].status \in 200..299
  /\ \A k \in DOMAIN cache : \E i \in DOMAIN storeLog :
       /\ storeLog[i].key = k
       /\ storeLog[i].status \in 200..299
       /\ cache[k] = [headers |-> storeLog[i].headers, body |-> storeLog[i].body]
  /\ \A r \in Requests :
       (Arrived(r) /\ \A r2 \in Requests :
            (r2 < r /\ reqs[r2].key = reqs[r].key) =>
               (Done(r2) /\ reqs[r2].resps[1].status \notin 200..299))
       => reqs[r].hops >= 1
  /\ \A r \in Requests :
       (Done(r) /\ reqs[r].hops >= 1 /\ reqs[r].resps[1].status \notin 200..299)
       => reqs[r].stores = 0

W_C5 ==
  \E r1, r2 \in Requests :
    /\ r1 < r2 /\ Done(r1) /\ Done(r2)
    /\ reqs[r1].key = reqs[r2].key
    /\ reqs[r1].resps[1].status = 404
    /\ reqs[r2].hops >= 1
    /\ reqs[r2].resps[1].status = 302
    /\ cache = [k \in {} |-> 0]

\* C6: X-Cache is HIT exactly on responses served from the cache, MISS exactly
\* on responses fetched with a 2xx status and stored, and the pass-through and
\* the error responses carry no X-Cache of the proxy.
C6_XCacheSignal ==
  \A r \in Requests : \A i \in DOMAIN reqs[r].resps :
    LET x == XCacheOf(reqs[r].resps[i])
    IN /\ (x = "HIT") <=> (reqs[r].paths = {"hit"} /\ reqs[r].hops = 0)
       /\ (x = "MISS") <=> (reqs[r].paths = {"store"} /\ reqs[r].stores = 1)
       /\ (reqs[r].paths \cap {"pass", "error"} # {}) => x \notin {"HIT", "MISS"}

\* C7: a request whose redirect chain ended in a 200 got that one response,
\* with X-Cache: MISS, and the response was stored under the key of the
\* original request (method and the path the client asked for); no 3xx
\* response is ever written to the client after a redirect or stored.
C7_RedirectChasing ==
  /\ \A r \in Requests :
       (Done(r) /\ reqs[r].redirects >= 1 /\ reqs[r].paths = {"store"}) =>
          /\ Len(reqs[r].resps) = 1
          /\ XCacheOf(reqs[r].resps[1]) = "MISS"
          /\ \E i \in DOMAIN storeLog :
               /\ storeLog[i].req = r
               /\ storeLog[i].key = <<reqs[r].method, reqs[r].url>>
               /\ storeLog[i].body = reqs[r].resps[1].body
               /\ storeLog[i].status = reqs[r].resps[1].status
  /\ \A i \in DOMAIN storeLog : storeLog[i].status \notin 300..399

\* C8: a transport error ends the request with the 500 text/plain response
\* "Error fetching from origin: <message>", leaves the cache as it was and is
\* followed by no further origin request of that client request.
C8_TransportFailure ==
  [][\A r \in Requests :
       /\ ("error" \notin reqs[r].paths /\ "error" \in reqs'[r].paths) =>
            /\ reqs'[r].pc = "done"
            /\ \E m \in ErrorMessages :
                 reqs'[r].resps =
                   <<Response(500, [n \in {"content-type"} |-> "text/plain"],
                              <<"Error fetching from origin: ", m>>)>>
            /\ cache' = cache
            /\ reqs'[r].hops = reqs[r].hops
            /\ reqs'[r].stores = 0
       /\ ("error" \in reqs[r].paths) =>
            /\ reqs'[r].hops = reqs[r].hops
            /\ reqs'[r].resps = reqs[r].resps
            /\ reqs'[r].stores = reqs[r].stores
    ]_vars

W_C8 ==
  \E r \in Requests :
    /\ reqs[r].paths = {"error"}
    /\ reqs[r].hops >= 2
    /\ DOMAIN cache # {}

\* C9: a request executes at most one of the four paths, and exactly one once
\* it has ended; it writes one response then and none before, and it stores
\* into the cache at most once (only on the cache write path).
C9_OneOutcomePerRequest ==
  \A r \in Requests :
    /\ Cardinality(reqs[r].paths) <= 1
    /\ Len(reqs[r].resps) <= 1
    /\ reqs[r].stores <= 1
    /\ Done(r) <=> Len(reqs[r].resps) = 1
    /\ Done(r) <=> Cardinality(reqs[r].paths) = 1
    /\ reqs[r].stores = Cardinality({i \in DOMAIN storeLog : storeLog[i].req = r})
    /\ reqs[r].stores = 1 <=> reqs[r].paths = {"store"}

W_C9 ==
  /\ \E r \in Requests : reqs[r].paths = {"store"} /\ reqs[r].redirects >= 2
  /\ \E r \in Requests : reqs[r].paths = {"error"} /\ reqs[r].redirects >= 1

\* C10: the lookup of a request runs after every chunk of its body was
\* received, and so does every store.
C10_KeyBeforeLookup ==
  /\ \A r \in Requests : Arrived(r) => reqs[r].lookupAt = Len(reqs[r].body)
  /\ \A i \in DOMAIN storeLog :
       storeLog[i].received = Len(reqs[storeLog[i].req].body)

\* C11: a request that arrives while another request with its key is in
\* flight and nothing is stored under the key fetches from the origin too
\* (no coalescing); whatever is stored, the entry of a key is the headers
\* and body of the one response stored last under it.
C11_LastWriteWins ==
  [][/\ \A r \in Requests :
          (/\ reqs[r].pc = "idle" /\ reqs'[r].pc # "idle"
           /\ StoresOf(reqs'[r].key) = {}
           /\ \E r2 \in Requests \ {r} :
                reqs[r2].pc = "fetching" /\ reqs[r2].key = reqs'[r].key)
          => (reqs'[r].pc = "fetching" /\ reqs'[r].hops = 1)
     /\ \A k \in DOMAIN cache' :
          LET idx == {i \in DOMAIN storeLog' : storeLog'[i].key = k}
          IN /\ idx # {}
             /\ LET last == storeLog'[CHOOSE i \in idx : \A j \in idx : j <= i]
                IN cache'[k] = [headers |-> last.headers, body |-> last.body]
    ]_vars

W_C11 ==
  \E r1, r2 \in Requests :
    /\ r1 # r2 /\ reqs[r1].key = reqs[r2].key
    /\ reqs[r1].stores = 1 /\ reqs[r2].stores = 1
    /\ Len(storeLog) = 2
    /\ storeLog[1].req = r2 /\ storeLog[2].req = r1 /\ r1 < r2
    /\ storeLog[1].body # storeLog[2].body
    /\ storeLog[1].headers # storeLog[2].headers
    /\ cache[reqs[r1].key] = [headers |-> storeLog[2].headers, body |-> storeLog[2].body]

\* C12: the outbound request of every hop targets the configured origin.
C12_OnlyConfiguredOrigin ==
  \A r \in Requests :
    reqs[r].pc = "fetching" => reqs[r].target.host = OriginHost

\* C13: no step of the running proxy removes a key from the cache.
C13_KeysNeverShrink ==
  [][\A k \in DOMAIN cache : k \in DOMAIN cache']_vars

W_C13 ==
  /\ Cardinality(DOMAIN cache) = 2
  /\ \E r \in Requests : reqs[r].paths = {"store"} /\ reqs[r].redirects >= 1
  /\ \E r \in Requests : reqs[r].paths = {"store"} /\ reqs[r].redirects = 0

\* C14: the first request the proxy receives after the program was run with
\* --clear-cache is fetched from the origin when its key was served as a hit
\* before that run.
C14_ClearCacheThenMiss ==
  [][\A r \in CliRequests :
       (/\ reqs[r].pc = "idle" /\ reqs'[r].pc # "idle"
        /\ admin.run.cleared
        /\ r = admin.after + 1
        /\ \E r0 \in CliRequests :
             r0 < r /\ reqs[r0].paths = {"hit"} /\ reqs[r0].key = reqs'[r].key)
       => (reqs'[r].hops = 1 /\ "hit" \notin reqs'[r].paths)
    ]_vars

\* C15: a hit writes status 200, the cached headers with X-Cache: HIT and the
\* cached body, issues no origin request and leaves the cache as it was.
C15_HitPath ==
  [][\A r \in Requests :
       (reqs[r].pc = "idle" /\ reqs'[r].pc = "done") =>
          /\ reqs'[r].key \in DOMAIN cache
          /\ reqs'[r].resps =
               <<Response(200,
                          SetHeader(cache[reqs'[r].key].headers, "x-cache", "HIT"),
                          cache[reqs'[r].key].body)>>
          /\ reqs'[r].hops = 0
          /\ cache' = cache
          /\ storeLog' = storeLog
    ]_vars

\* C16: a process that has run its top-level code listens exactly when
\* --clear-cache was not given and port and origin were; with --clear-cache it
\* has cleared its cache and exited with 0, whatever else was given; without
\* it and with port or origin missing it has exited with a non-zero code; and
\* the proxy handles requests only when it listens.
StartupContract(p) ==
  p.pc # "start" =>
    /\ (p.pc = "listening") <=> (~p.opts.clearCache /\ p.opts.port /\ p.opts.origin)
    /\ (p.pc = "listening") => (p.exit = -1 /\ ~p.cleared)
    /\ p.opts.clearCache => (p.pc = "exited" /\ p.exit = 0 /\ p.cleared)
    /\ (~p.opts.clearCache /\ (~p.opts.port \/ ~p.opts.origin)) =>
         (p.pc = "exited" /\ p.exit > 0 /\ ~p.cleared)
C16_StartupContract ==
  /\ StartupContract(proc)
  /\ StartupContract(admin.run)
  /\ (\E r \in CliRequests : reqs[r].pc # "idle") => proc.pc = "listening"

W_C16 ==
  /\ proc.pc = "listening"
  /\ admin.run.pc = "exited" /\ admin.run.exit = 0
  /\ admin.run.opts.clearCache /\ ~admin.run.opts.port /\ ~admin.run.opts.origin

\* C17: a client request has at most one origin request outstanding, and the
\* request of a hop is issued when every earlier hop has been answered.
C17_SequentialHops ==
  \A r \in Requests :
    /\ reqs[r].outstanding \in {0, 1}
    /\ (reqs[r].outstanding = 1) <=> (reqs[r].pc = "fetching")
    /\ reqs[r].pc = "fetching" => reqs[r].hops = reqs[r].redirects + 1

W_C17 ==
  \E r \in Requests :
    reqs[r].pc = "fetching" /\ reqs[r].hops >= 3 /\ reqs[r].outstanding = 1

\* C18: once the client's body has arrived in full, the outbound request of
\* the current hop has the client's method and has been given the client's
\* whole body.
C18_SameRequestEveryHop ==
  \A r \in Requests :
    (reqs[r].pc = "fetching" /\ reqs[r].received = Len(reqs[r].body)) =>
       /\ reqs[r].out.method = reqs[r].method
       /\ reqs[r].out.body = reqs[r].body

\* C19: every store is made by a request that did not hit, under the key it
\* looked up; and when requests do not overlap, a key is stored at most once
\* and its entry never changes afterwards.
C19_StoredOnce ==
  [][/\ \A i \in DOMAIN storeLog' :
          LET q == reqs'[storeLog'[i].req]
          IN q.paths = {"store"} /\ q.hops >= 1 /\ q.key = storeLog'[i].key
     /\ \A i, j \in DOMAIN storeLog' :
          storeLog'[i].key = storeLog'[j].key => i = j
     /\ \A k \in DOMAIN cache : k \in DOMAIN cache' /\ cache'[k] = cache[k]
    ]_vars

W_C19 ==
  \E r1, r2 \in Requests :
    /\ r1 < r2 /\ reqs[r1].key = reqs[r2].key
    /\ reqs[r1].paths = {"store"} /\ reqs[r2].paths = {"hit"}
    /\ Len(storeLog) = 1
    /\ reqs[r2].resps[1].body = storeLog[1].body

====
